---- MODULE Spec2Model ----
(***************************************************************************)
(* Model of backup/snapshots.py: the DriveSnapshot and HASnapshot views    *)
(* over raw metadata records and the Snapshot aggregate that reconciles    *)
(* them with pending / transfer / restore state.                           *)
(*                                                                         *)
(* A Python Optional is modelled as a sequence of length 0 (None) or 1.    *)
(* A Python call that raises is modelled by the name of the exception.     *)
(***************************************************************************)
EXTENDS Integers, Sequences, FiniteSets, TLC

VARIABLES
    driveitem,              \* Optional[DriveSnapshot]
    ha,                     \* Optional[HASnapshot]
    drive,                  \* attribute "drive", created only by update()
    pending,
    donwloading,
    donwload_failed,
    downloadFailed_attr,    \* instance attribute "downloadFailed" shadowing the method
    pending_name,
    pending_date,
    pending_slug,
    uploading_pct,
    pendingHasFailed,
    will_backup,
    restoring,
    _deleteNextFromDrive,
    _deleteNextFromHa,
    _pending_retain_drive,
    _pending_retain_ha,
    everPending,            \* history: the pending flag has been true at some point
    last,                   \* history: name of the last constructor / mutator called
    raised,                 \* history: exception raised by the last call, or "none"
    calls,                  \* history: number of mutator calls since construction
    heap,                   \* the appProperties dicts, by address (index)
    caller_source,          \* the collaborator's raw record; appProperties is an address
    instances,              \* the DriveSnapshot objects built from caller_source
    args,                   \* history: arguments of the last DriveSnapshot call
    returned                \* history: value returned by the last accessor call

fields == <<driveitem, ha, drive, pending, donwloading, donwload_failed,
            downloadFailed_attr, pending_name, pending_date, pending_slug,
            uploading_pct, pendingHasFailed, will_backup, restoring,
            _deleteNextFromDrive, _deleteNextFromHa,
            _pending_retain_drive, _pending_retain_ha>>

\* state used only where DriveSnapshot.setRetain or Snapshot.sizeString is called
aux == <<heap, caller_source, instances, args, returned>>

vars == <<fields, everPending, last, raised, calls, aux>>

(***************************************************************************)
(* Bounds                                                                  *)
(***************************************************************************)
\* number of distinct raw records of the archive store
NumDrive == 2
\* number of distinct raw records of the device store
NumHA == 2
\* number of mutator calls made on one aggregate after its construction
MaxCalls == 3

(***************************************************************************)
(* Python values                                                           *)
(***************************************************************************)
None == <<>>
Some(v) == <<v>>

\* truth value of an Optional[str]: None and "" are falsy
TruthyStr(o) == o # None /\ o[1] # ""

\* truth value of an Optional[object]: only None is falsy
TruthyObj(o) == o # None

FormatInt(n) == ToString(n)

PROP_KEY_SLUG == "snapshot_slug"
PROP_KEY_DATE == "snapshot_date"
PROP_KEY_NAME == "snapshot_name"
PROP_TYPE == "type"
PROP_VERSION == "version"
PROP_PROTECTED == "protected"
PROP_RETAINED == "retained"

(***************************************************************************)
(* Raw records handed in by the collaborators                              *)
(***************************************************************************)
DateStrings == <<"2019-01-01T00:00:00", "2019-01-02T00:00:00", "2019-01-03T00:00:00",
                 "2019-01-04T00:00:00", "2019-01-05T00:00:00", "2019-01-06T00:00:00">>

\* helpers.parseDateTime: timestamps are numbered in the order of DateStrings
parseDateTime(s) == CHOOSE i \in 1..Len(DateStrings) : DateStrings[i] = s

\* the value datetime.now() stands for
NOW == 0

\* optional appProperties of the i-th remote record: the odd ones carry none
\* of the optional keys, the even ones all four, every third one a rejected
\* spelling of the retained flag
DriveOptionalProps(i) ==
    IF i % 3 = 0 THEN (PROP_RETAINED :> "TRUE") @@ (PROP_VERSION :> "0.93.0")
    ELSE IF i % 2 = 0
         THEN (PROP_TYPE :> "partial") @@ (PROP_VERSION :> "0.92.1")
              @@ (PROP_PROTECTED :> "true") @@ (PROP_RETAINED :> "true")
         ELSE (PROP_PROTECTED :> "False")

DriveSource(i) ==
    [id |-> "id" \o ToString(i),
     size |-> 1023 + i,
     appProperties |->
        (PROP_KEY_SLUG :> ("dslug" \o ToString(i)))
        @@ (PROP_KEY_DATE :> DateStrings[i])
        @@ (PROP_KEY_NAME :> ("Drive " \o ToString(i)))
        @@ DriveOptionalProps(i)]

HASource(i) ==
    [name |-> "HA " \o ToString(i),
     slug |-> "hslug" \o ToString(i),
     size |-> i,
     date |-> DateStrings[i + 1],
     type |-> IF i % 2 = 0 THEN "partial" ELSE "full",
     homeassistant |-> "0.9" \o ToString(i),
     protected |-> (i % 2 = 0)]

(***************************************************************************)
(* class DriveSnapshot                                                     *)
(***************************************************************************)
DriveSnapshot(source) ==
    [kind |-> "DriveSnapshot",
     source |-> source,
     _date |-> parseDateTime(source.appProperties[PROP_KEY_DATE])]

DriveSnapshot_name(d) == d.source.appProperties[PROP_KEY_NAME]

DriveSnapshot_slug(d) == d.source.appProperties[PROP_KEY_SLUG]

DriveSnapshot_size(d) == d.source.size

DriveSnapshot_date(d) == d._date

DriveSnapshot_snapshotType(d) ==
    LET props == d.source.appProperties
    IN  IF PROP_TYPE \in DOMAIN props THEN props[PROP_TYPE] ELSE "full"

DriveSnapshot_version(d) ==
    LET props == d.source.appProperties
    IN  IF PROP_VERSION \in DOMAIN props THEN props[PROP_VERSION] ELSE "?"

DriveSnapshot_protected(d) ==
    LET props == d.source.appProperties
    IN  IF PROP_PROTECTED \in DOMAIN props
        THEN props[PROP_PROTECTED] = "true" \/ props[PROP_PROTECTED] = "True"
        ELSE FALSE

DriveSnapshot_retained(d) ==
    LET props == d.source.appProperties
    IN  IF PROP_RETAINED \in DOMAIN props
        THEN props[PROP_RETAINED] = "true" \/ props[PROP_RETAINED] = "True"
        ELSE FALSE

(***************************************************************************)
(* class HASnapshot                                                        *)
(***************************************************************************)
HASnapshot(source, retained) ==
    [kind |-> "HASnapshot",
     source |-> source,
     _retained |-> retained,
     _date |-> parseDateTime(source.date)]

HASnapshot_name(h) == h.source.name

HASnapshot_slug(h) == h.source.slug

HASnapshot_size(h) == h.source.size * 1024 * 1024

HASnapshot_date(h) == h._date

HASnapshot_snapshotType(h) == h.source.type

HASnapshot_version(h) == h.source.homeassistant

HASnapshot_protected(h) == h.source.protected

HASnapshot_retained(h) == h._retained

\* the objects the collaborators construct and pass in
DriveSnapshots == { DriveSnapshot(DriveSource(i)) : i \in 1..NumDrive }

HASnapshots == { HASnapshot(HASource(i), i % 2 = 0) : i \in 1..NumHA }

isinstance_HASnapshot(s) == s # None /\ s[1].kind = "HASnapshot"

isinstance_DriveSnapshot(s) == s # None /\ s[1].kind = "DriveSnapshot"

\* arguments the collaborators pass to the mutators
PendingNames == {"", "Pending Snapshot"}
PendingDates == {parseDateTime(DateStrings[1])}
Slugs == {"abc123"}
DownloadPercents == {-1, 0, 50, 100}
UploadPercents == {-1, 0}
DeleteIntents == {None, Some(TRUE)}
RestoringValues == {None, Some(TRUE), Some(FALSE)}

(***************************************************************************)
(* class Snapshot: construction                                            *)
(***************************************************************************)
\* __init__ without the else branch that marks a placeholder pending
Snapshot__init___placeholderNotPending(snapshot) ==
    /\ driveitem = (IF isinstance_DriveSnapshot(snapshot) THEN snapshot ELSE None)
    /\ ha = (IF isinstance_HASnapshot(snapshot) THEN snapshot ELSE None)
    /\ pending = FALSE
    /\ donwloading = -1
    /\ donwload_failed = FALSE
    /\ pending_name = Some("")
    /\ pending_date = None
    /\ pending_slug = None
    /\ uploading_pct = -1
    /\ pendingHasFailed = FALSE
    /\ will_backup = TRUE
    /\ restoring = None
    /\ _deleteNextFromDrive = None
    /\ _deleteNextFromHa = None
    /\ _pending_retain_drive = FALSE
    /\ _pending_retain_ha = FALSE
    /\ drive = None
    /\ downloadFailed_attr = None

Snapshot__init__(snapshot) ==
    /\ driveitem = (IF isinstance_HASnapshot(snapshot) THEN None
                    ELSE IF isinstance_DriveSnapshot(snapshot) THEN snapshot
                    ELSE None)
    /\ ha = (IF isinstance_HASnapshot(snapshot) THEN snapshot ELSE None)
    /\ pending = (~isinstance_HASnapshot(snapshot) /\ ~isinstance_DriveSnapshot(snapshot))
    /\ donwloading = -1
    /\ donwload_failed = FALSE
    /\ pending_name = Some("")
    /\ pending_date = None
    /\ pending_slug = None
    /\ uploading_pct = -1
    /\ pendingHasFailed = FALSE
    /\ will_backup = TRUE
    /\ restoring = None
    /\ _deleteNextFromDrive = None
    /\ _deleteNextFromHa = None
    /\ _pending_retain_drive = FALSE
    /\ _pending_retain_ha = FALSE
    \* attributes __init__ does not create
    /\ drive = None
    /\ downloadFailed_attr = None

\* no raw record is shared and no accessor has been called
AuxIdle ==
    /\ heap = <<>>
    /\ caller_source = None
    /\ instances = <<>>
    /\ args = <<>>
    /\ returned = None

Init ==
    /\ \E snapshot \in {None} \cup { Some(s) : s \in HASnapshots \cup DriveSnapshots } :
          Snapshot__init__(snapshot)
    /\ everPending = pending
    /\ last = "__init__"
    /\ raised = "none"
    /\ calls = 0
    /\ AuxIdle

(***************************************************************************)
(* class Snapshot: accessors                                               *)
(***************************************************************************)
Return(v) == [exc |-> "none", val |-> v]
Raise(e) == [exc |-> e]

isDownloading == donwloading >= 0

isRestoring == restoring # None

isInDrive == driveitem # None

isInHA == ha # None

\* isPending without the test of the local record
isPending_ignoresLocal == pending /\ ~pendingHasFailed

\* isPending without the test of the failure mark
isPending_ignoresFailed == pending /\ ~isInHA

isPending == pending /\ ~isInHA /\ ~pendingHasFailed

isDeleted == ~isPending /\ ~isInHA /\ ~isInDrive

\* name() with the local record consulted before the remote one
name_localFirst ==
    IF TruthyObj(ha) THEN HASnapshot_name(ha[1])
    ELSE IF TruthyObj(driveitem) THEN DriveSnapshot_name(driveitem[1])
    ELSE IF pending /\ TruthyStr(pending_name) THEN pending_name[1]
    ELSE "error"

name ==
    IF TruthyObj(driveitem) THEN DriveSnapshot_name(driveitem[1])
    ELSE IF TruthyObj(ha) THEN HASnapshot_name(ha[1])
    ELSE IF pending /\ TruthyStr(pending_name) THEN pending_name[1]
    ELSE "error"

slug ==
    IF TruthyObj(driveitem) THEN DriveSnapshot_slug(driveitem[1])
    ELSE IF TruthyObj(ha) THEN HASnapshot_slug(ha[1])
    ELSE IF pending /\ TruthyStr(pending_slug) THEN pending_slug[1]
    ELSE "error"

size ==
    IF TruthyObj(driveitem) THEN DriveSnapshot_size(driveitem[1])
    ELSE IF TruthyObj(ha) THEN HASnapshot_size(ha[1])
    ELSE 0

\* line 235 reads self.driveItem, an attribute no code creates
snapshotType ==
    IF TruthyObj(ha) THEN Return(HASnapshot_snapshotType(ha[1]))
    ELSE IF TruthyObj(driveitem) THEN Raise("AttributeError")
    ELSE Return("pending")

version ==
    IF TruthyObj(ha) THEN HASnapshot_snapshotType(ha[1])
    ELSE IF TruthyObj(driveitem) THEN DriveSnapshot_snapshotType(driveitem[1])
    ELSE "?"

protected ==
    IF TruthyObj(ha) THEN HASnapshot_protected(ha[1])
    ELSE IF TruthyObj(driveitem) THEN DriveSnapshot_protected(driveitem[1])
    ELSE FALSE

date ==
    IF TruthyObj(driveitem) THEN DriveSnapshot_date(driveitem[1])
    ELSE IF TruthyObj(ha) THEN HASnapshot_date(ha[1])
    ELSE IF pending /\ TruthyObj(pending_date) THEN pending_date[1]
    ELSE NOW

\* status() with the presence rules tested before the download rules
status_presenceFirst ==
    IF isRestoring
    THEN (IF restoring[1] THEN "Restoring" ELSE "Restore Complete")
    ELSE IF isInDrive /\ isInHA THEN "Backed Up"
    ELSE IF isInDrive /\ ~isInHA THEN "Drive Only"
    ELSE IF isDownloading
    THEN (IF donwload_failed THEN "Loading Failed!"
          ELSE IF donwloading = 100 THEN "Refreshing snapshot"
          ELSE "Loading " \o FormatInt(donwloading) \o "%")
    ELSE IF ~isInDrive /\ isInHA /\ uploading_pct >= 0
    THEN "Uploading " \o FormatInt(uploading_pct) \o "%"
    ELSE IF ~isInDrive /\ isInHA
    THEN (IF will_backup THEN "Waiting" ELSE "Hass.io Only")
    ELSE IF pending THEN "Pending"
    ELSE "Invalid State"

status ==
    IF isRestoring
    THEN (IF restoring[1] THEN "Restoring" ELSE "Restore Complete")
    ELSE IF isDownloading
    THEN (IF donwload_failed THEN "Loading Failed!"
          ELSE IF donwloading = 100 THEN "Refreshing snapshot"
          ELSE "Loading " \o FormatInt(donwloading) \o "%")
    ELSE IF isInDrive /\ isInHA THEN "Backed Up"
    ELSE IF isInDrive /\ ~isInHA THEN "Drive Only"
    ELSE IF ~isInDrive /\ isInHA /\ uploading_pct >= 0
    THEN "Uploading " \o FormatInt(uploading_pct) \o "%"
    ELSE IF ~isInDrive /\ isInHA
    THEN (IF will_backup THEN "Waiting" ELSE "Hass.io Only")
    ELSE IF pending THEN "Pending"
    ELSE "Invalid State"

\* line 355 reads self.drive, which exists only after update() with a
\* non-local record, and calls details(), which DriveSnapshot does not define
details ==
    IF isInHA THEN Return(ha[1].source)
    ELSE IF isInDrive THEN Raise("AttributeError")
    ELSE Return(<<>>)

driveRetained ==
    isInDrive /\ (DriveSnapshot_retained(driveitem[1]) \/ _pending_retain_drive)

haRetained ==
    isInHA /\ (HASnapshot_retained(ha[1]) \/ _pending_retain_ha)

(***************************************************************************)
(* class Snapshot: mutators.  Every call is one step; Called records it.   *)
(***************************************************************************)
Called(method, exception) ==
    /\ calls < MaxCalls
    /\ calls' = calls + 1
    /\ last' = method
    /\ raised' = exception
    /\ everPending' = (everPending \/ pending')
    /\ UNCHANGED aux

deleteNextFromDrive_setter(delete) ==
    /\ _deleteNextFromDrive' = delete
    /\ UNCHANGED <<driveitem, ha, drive, pending, donwloading, donwload_failed,
                   downloadFailed_attr, pending_name, pending_date, pending_slug,
                   uploading_pct, pendingHasFailed, will_backup, restoring,
                   _deleteNextFromHa, _pending_retain_drive, _pending_retain_ha>>
    /\ Called("deleteNextFromDrive", "none")

deleteNextFromHa_setter(delete) ==
    /\ _deleteNextFromHa' = delete
    /\ UNCHANGED <<driveitem, ha, drive, pending, donwloading, donwload_failed,
                   downloadFailed_attr, pending_name, pending_date, pending_slug,
                   uploading_pct, pendingHasFailed, will_backup, restoring,
                   _deleteNextFromDrive, _pending_retain_drive, _pending_retain_ha>>
    /\ Called("deleteNextFromHa", "none")

\* restoring has no setter method: the collaborators assign the attribute
restoring_assign(value) ==
    /\ restoring' = value
    /\ UNCHANGED <<driveitem, ha, drive, pending, donwloading, donwload_failed,
                   downloadFailed_attr, pending_name, pending_date, pending_slug,
                   uploading_pct, pendingHasFailed, will_backup,
                   _deleteNextFromDrive, _deleteNextFromHa,
                   _pending_retain_drive, _pending_retain_ha>>
    /\ Called("restoring", "none")

\* setPending that starts the pending state afresh, failure mark included
setPending_clearsFailure(n, d, retain_drive, retain_ha) ==
    /\ pending_name' = Some(n)
    /\ pending_date' = Some(d)
    /\ pending_slug' = Some("PENDING")
    /\ pending' = TRUE
    /\ pendingHasFailed' = FALSE
    /\ _pending_retain_drive' = retain_drive
    /\ _pending_retain_ha' = retain_ha
    /\ UNCHANGED <<driveitem, ha, drive, donwloading, donwload_failed,
                   downloadFailed_attr, uploading_pct,
                   will_backup, restoring, _deleteNextFromDrive, _deleteNextFromHa>>
    /\ Called("setPending", "none")

setPending(n, d, retain_drive, retain_ha) ==
    /\ pending_name' = Some(n)
    /\ pending_date' = Some(d)
    /\ pending_slug' = Some("PENDING")
    /\ pending' = TRUE
    /\ _pending_retain_drive' = retain_drive
    /\ _pending_retain_ha' = retain_ha
    /\ UNCHANGED <<driveitem, ha, drive, donwloading, donwload_failed,
                   downloadFailed_attr, uploading_pct, pendingHasFailed,
                   will_backup, restoring, _deleteNextFromDrive, _deleteNextFromHa>>
    /\ Called("setPending", "none")

\* endPending that also ends the pending state
endPending_clearsPending(s) ==
    /\ pending_slug' = Some(s)
    /\ pending' = FALSE
    /\ UNCHANGED <<driveitem, ha, drive, donwloading, donwload_failed,
                   downloadFailed_attr, pending_name, pending_date,
                   uploading_pct, pendingHasFailed, will_backup, restoring,
                   _deleteNextFromDrive, _deleteNextFromHa,
                   _pending_retain_drive, _pending_retain_ha>>
    /\ Called("endPending", "none")

endPending(s) ==
    /\ pending_slug' = Some(s)
    /\ UNCHANGED <<driveitem, ha, drive, pending, donwloading, donwload_failed,
                   downloadFailed_attr, pending_name, pending_date,
                   uploading_pct, pendingHasFailed, will_backup, restoring,
                   _deleteNextFromDrive, _deleteNextFromHa,
                   _pending_retain_drive, _pending_retain_ha>>
    /\ Called("endPending", "none")

pendingFailed ==
    /\ pendingHasFailed' = TRUE
    /\ UNCHANGED <<driveitem, ha, drive, pending, donwloading, donwload_failed,
                   downloadFailed_attr, pending_name, pending_date, pending_slug,
                   uploading_pct, will_backup, restoring,
                   _deleteNextFromDrive, _deleteNextFromHa,
                   _pending_retain_drive, _pending_retain_ha>>
    /\ Called("pendingFailed", "none")

setWillBackup(will) ==
    /\ will_backup' = will
    /\ UNCHANGED <<driveitem, ha, drive, pending, donwloading, donwload_failed,
                   downloadFailed_attr, pending_name, pending_date, pending_slug,
                   uploading_pct, pendingHasFailed, restoring,
                   _deleteNextFromDrive, _deleteNextFromHa,
                   _pending_retain_drive, _pending_retain_ha>>
    /\ Called("setWillBackup", "none")

\* line 277 assigns the instance attribute downloadFailed, which from then on
\* hides the method of that name; donwload_failed is not written
setDownloading(percent) ==
    /\ donwloading' = percent
    /\ downloadFailed_attr' = Some(FALSE)
    /\ UNCHANGED <<driveitem, ha, drive, pending, donwload_failed,
                   pending_name, pending_date, pending_slug,
                   uploading_pct, pendingHasFailed, will_backup, restoring,
                   _deleteNextFromDrive, _deleteNextFromHa,
                   _pending_retain_drive, _pending_retain_ha>>
    /\ Called("setDownloading", "none")

\* the call snapshot.downloadFailed(): the method runs when no instance
\* attribute hides it, otherwise the call of a bool raises TypeError
downloadFailed ==
    IF downloadFailed_attr = None
    THEN /\ donwload_failed' = TRUE
         /\ UNCHANGED <<driveitem, ha, drive, pending, donwloading,
                        downloadFailed_attr, pending_name, pending_date, pending_slug,
                        uploading_pct, pendingHasFailed, will_backup, restoring,
                        _deleteNextFromDrive, _deleteNextFromHa,
                        _pending_retain_drive, _pending_retain_ha>>
         /\ Called("downloadFailed", "none")
    ELSE /\ UNCHANGED fields
         /\ Called("downloadFailed", "TypeError")

\* setDrive that clears the retention intent with the other pending fields
setDrive_clearsRetainIntent(d) ==
    /\ driveitem' = Some(d)
    /\ pending_name' = None
    /\ pending_date' = None
    /\ pending_slug' = None
    /\ uploading_pct' = -1
    /\ pending' = FALSE
    /\ _pending_retain_drive' = FALSE
    /\ UNCHANGED <<ha, drive, donwloading, donwload_failed, downloadFailed_attr,
                   pendingHasFailed, will_backup, restoring,
                   _deleteNextFromDrive, _deleteNextFromHa, _pending_retain_ha>>
    /\ Called("setDrive", "none")

setDrive(d) ==
    /\ driveitem' = Some(d)
    /\ pending_name' = None
    /\ pending_date' = None
    /\ pending_slug' = None
    /\ uploading_pct' = -1
    /\ pending' = FALSE
    /\ UNCHANGED <<ha, drive, donwloading, donwload_failed, downloadFailed_attr,
                   pendingHasFailed, will_backup, restoring,
                   _deleteNextFromDrive, _deleteNextFromHa,
                   _pending_retain_drive, _pending_retain_ha>>
    /\ Called("setDrive", "none")

\* setHA that clears what setDrive clears and leaves the download state
setHA_keepsDownload(h) ==
    /\ ha' = Some(h)
    /\ pending_name' = None
    /\ pending_date' = None
    /\ pending_slug' = None
    /\ uploading_pct' = -1
    /\ pending' = FALSE
    /\ UNCHANGED <<driveitem, drive, donwloading, donwload_failed, downloadFailed_attr,
                   pendingHasFailed, will_backup, restoring,
                   _deleteNextFromDrive, _deleteNextFromHa,
                   _pending_retain_drive, _pending_retain_ha>>
    /\ Called("setHA", "none")

setHA(h) ==
    /\ ha' = Some(h)
    /\ pending_name' = None
    /\ pending_date' = None
    /\ pending_slug' = None
    /\ uploading_pct' = -1
    /\ pending' = FALSE
    /\ donwloading' = -1
    /\ donwload_failed' = FALSE
    /\ UNCHANGED <<driveitem, drive, downloadFailed_attr,
                   pendingHasFailed, will_backup, restoring,
                   _deleteNextFromDrive, _deleteNextFromHa,
                   _pending_retain_drive, _pending_retain_ha>>
    /\ Called("setHA", "none")

\* line 349 writes the attribute "drive", not "driveitem"
\* update that resets the upload progress of a record it already holds
update_resetsUploadWhenKnown(snapshot) ==
    /\ IF isinstance_HASnapshot(Some(snapshot))
       THEN /\ ha' = Some(snapshot)
            /\ uploading_pct' = (IF isInHA THEN -1 ELSE uploading_pct)
            /\ UNCHANGED drive
       ELSE drive' = Some(snapshot) /\ UNCHANGED <<ha, uploading_pct>>
    /\ UNCHANGED <<driveitem, pending, donwloading, donwload_failed,
                   downloadFailed_attr, pending_name, pending_date, pending_slug,
                   pendingHasFailed, will_backup, restoring,
                   _deleteNextFromDrive, _deleteNextFromHa,
                   _pending_retain_drive, _pending_retain_ha>>
    /\ Called("update", "none")

update(snapshot) ==
    /\ IF isinstance_HASnapshot(Some(snapshot))
       THEN ha' = Some(snapshot) /\ UNCHANGED drive
       ELSE drive' = Some(snapshot) /\ UNCHANGED ha
    /\ UNCHANGED <<driveitem, pending, donwloading, donwload_failed,
                   downloadFailed_attr, pending_name, pending_date, pending_slug,
                   uploading_pct, pendingHasFailed, will_backup, restoring,
                   _deleteNextFromDrive, _deleteNextFromHa,
                   _pending_retain_drive, _pending_retain_ha>>
    /\ Called("update", "none")

uploading(percent) ==
    /\ uploading_pct' = percent
    /\ UNCHANGED <<driveitem, ha, drive, pending, donwloading, donwload_failed,
                   downloadFailed_attr, pending_name, pending_date, pending_slug,
                   pendingHasFailed, will_backup, restoring,
                   _deleteNextFromDrive, _deleteNextFromHa,
                   _pending_retain_drive, _pending_retain_ha>>
    /\ Called("uploading", "none")

Next ==
    \/ \E delete \in DeleteIntents : deleteNextFromDrive_setter(delete)
    \/ \E delete \in DeleteIntents : deleteNextFromHa_setter(delete)
    \/ \E value \in RestoringValues : restoring_assign(value)
    \/ \E n \in PendingNames, d \in PendingDates, rd \in BOOLEAN, rh \in BOOLEAN :
          setPending(n, d, rd, rh)
    \/ \E s \in Slugs : endPending(s)
    \/ pendingFailed
    \/ \E will \in BOOLEAN : setWillBackup(will)
    \/ \E percent \in DownloadPercents : setDownloading(percent)
    \/ downloadFailed
    \/ \E d \in DriveSnapshots : setDrive(d)
    \/ \E h \in HASnapshots : setHA(h)
    \/ \E snapshot \in HASnapshots \cup DriveSnapshots : update(snapshot)
    \/ \E percent \in UploadPercents : uploading(percent)

Spec == Init /\ [][Next]_vars

(***************************************************************************)
(* Properties                                                              *)
(***************************************************************************)

\* the eleven rules of the status decision table, in order
StatusRule(i) ==
    CASE i = 1 -> restoring = Some(TRUE)
      [] i = 2 -> restoring = Some(FALSE)
      [] i = 3 -> donwloading >= 0 /\ donwload_failed
      [] i = 4 -> donwloading >= 0 /\ donwloading = 100
      [] i = 5 -> donwloading >= 0
      [] i = 6 -> driveitem # None /\ ha # None
      [] i = 7 -> driveitem # None /\ ha = None
      [] i = 8 -> driveitem = None /\ ha # None /\ uploading_pct >= 0
      [] i = 9 -> driveitem = None /\ ha # None
      [] i = 10 -> pending
      [] i = 11 -> TRUE

StatusLabel(i) ==
    CASE i = 1 -> "Restoring"
      [] i = 2 -> "Restore Complete"
      [] i = 3 -> "Loading Failed!"
      [] i = 4 -> "Refreshing snapshot"
      [] i = 5 -> "Loading " \o ToString(donwloading) \o "%"
      [] i = 6 -> "Backed Up"
      [] i = 7 -> "Drive Only"
      [] i = 8 -> "Uploading " \o ToString(uploading_pct) \o "%"
      [] i = 9 -> (IF will_backup THEN "Waiting" ELSE "Hass.io Only")
      [] i = 10 -> "Pending"
      [] i = 11 -> "Invalid State"

FirstMatchingRule ==
    CHOOSE i \in 1..11 : StatusRule(i) /\ \A j \in 1..(i - 1) : ~StatusRule(j)

\* C1: in every reachable state status() is the label of the first matching
\* rule of the eleven-rule table; with both records attached and a download
\* at 50 it is "Loading 50%" (unless restoring or failed) and never "Backed Up"
C1_StatusIsFirstMatchingRule ==
    /\ status = StatusLabel(FirstMatchingRule)
    /\ (driveitem # None /\ ha # None /\ donwloading = 50)
          => /\ status # "Backed Up"
             /\ (restoring = None /\ ~donwload_failed) => status = "Loading 50%"

C1_Witness ==
    /\ last = "setDownloading"
    /\ driveitem # None /\ ha # None
    /\ donwloading = 50
    /\ status = "Loading 50%"

TransientFields ==
    <<pending, pending_name, pending_date, pending_slug, pendingHasFailed,
      will_backup, donwloading, donwload_failed, uploading_pct, restoring,
      _deleteNextFromDrive, _deleteNextFromHa,
      _pending_retain_drive, _pending_retain_ha>>

\* C2: update(r) with a remote record makes r the remote slot (isInDrive and
\* name, slug, size, date, driveRetained are those of r), update(l) with a
\* local record makes l the local slot, and no transient field changes
C2_UpdateReplacesMatchingSlot ==
    [][ /\ \A r \in DriveSnapshots :
              update(r) =>
                 /\ driveitem' = Some(r)
                 /\ isInDrive'
                 /\ name' = DriveSnapshot_name(r)
                 /\ slug' = DriveSnapshot_slug(r)
                 /\ size' = DriveSnapshot_size(r)
                 /\ date' = DriveSnapshot_date(r)
                 /\ driveRetained' = (DriveSnapshot_retained(r) \/ _pending_retain_drive)
                 /\ TransientFields' = TransientFields
        /\ \A l \in HASnapshots :
              update(l) => /\ ha' = Some(l)
                           /\ TransientFields' = TransientFields
      ]_vars

\* C3: no mutator call raises, and in every reachable state the accessors
\* that dereference a record return normally
C3_NoCallRaises ==
    /\ raised = "none"
    /\ snapshotType.exc = "none"
    /\ details.exc = "none"

\* C4 (as stated): whenever isPending() is true the artifact is in neither
\* store, also after setPending on an aggregate that has a remote record
C4_PendingImpliesInNeitherStore ==
    isPending => (~isInDrive /\ ~isInHA)

\* C4 (amended): whenever isPending() is true no local record is attached;
\* a remote record may be: after setPending on an aggregate with no local
\* record and no failure mark isPending() is true whether or not a remote
\* record is attached, and the remote record stays attached
C4_PendingImpliesNotLocal ==
    /\ [](isPending => ~isInHA)
    /\ [][ (\E n \in PendingNames, d \in PendingDates, rd \in BOOLEAN, rh \in BOOLEAN :
               setPending(n, d, rd, rh) /\ ~isInHA /\ ~pendingHasFailed)
           => (isPending' /\ driveitem' = driveitem) ]_vars

C4_Witness ==
    /\ last = "setPending"
    /\ isInDrive
    /\ isPending

\* C5: isPending() = (pending and not isInHA() and not pendingHasFailed),
\* isDeleted() = (not isPending() and not isInHA() and not isInDrive()),
\* and the two are never both true
C5_PendingAndDeletedDefinitions ==
    /\ isPending <=> (pending = TRUE /\ ha = None /\ pendingHasFailed = FALSE)
    /\ isDeleted <=> (~isPending /\ ha = None /\ driveitem = None)
    /\ ~(isPending /\ isDeleted)

C5_Witness ==
    /\ last = "pendingFailed"
    /\ pending /\ pendingHasFailed
    /\ isDeleted /\ ~isPending

\* C6: isDeleted() is true exactly when there is no remote record, no local
\* record, and the aggregate either was never pending or has pendingHasFailed
C6_DeletedIffNoRecordAndNeverPendingOrFailed ==
    isDeleted <=> (driveitem = None /\ ha = None /\ (~everPending \/ pendingHasFailed))

C6_Witness ==
    /\ driveitem = None /\ ha = None
    /\ everPending /\ pendingHasFailed
    /\ pending_slug = Some("PENDING")
    /\ isDeleted

\* C7: on a placeholder, setPending(n, t, TRUE, FALSE) leaves isPending()
\* true and driveRetained() false; a later setDrive(r) keeps the retention
\* intent, so driveRetained() is true although r.retained() is false; always
\* driveRetained() = isInDrive() and (r.retained() or the retention intent)
C7_RetainIntentSurvivesSetDrive ==
    [][ /\ \A n \in PendingNames, d \in PendingDates :
              (setPending(n, d, TRUE, FALSE)
                 /\ driveitem = None /\ ha = None /\ ~pendingHasFailed)
              => (isPending' /\ ~driveRetained')
        /\ \A r \in DriveSnapshots :
              setDrive(r) =>
                 /\ _pending_retain_drive' = _pending_retain_drive
                 /\ driveRetained' = (DriveSnapshot_retained(r) \/ _pending_retain_drive)
        /\ driveRetained' = (driveitem' # None
                             /\ (DriveSnapshot_retained(driveitem'[1])
                                 \/ _pending_retain_drive'))
      ]_vars

C7_Witness ==
    /\ last = "setDrive"
    /\ _pending_retain_drive /\ ~_pending_retain_ha
    /\ ~DriveSnapshot_retained(driveitem[1])
    /\ driveRetained

IsDownloadStatus(s) ==
    s \in {"Loading Failed!", "Refreshing snapshot"}
          \cup { "Loading " \o ToString(p) \o "%" : p \in DownloadPercents }

\* C8: setDrive(r) ends with driveitem = r, pending false, the pending name,
\* date and slug None and uploading_pct = -1; setHA(l) ends with ha = l, the
\* same pending fields cleared, donwloading = -1 and donwload_failed false;
\* isPending() is false after either and status() after setHA is not a
\* download status
C8_AttachClearsPendingAndProgress ==
    [][ /\ \A r \in DriveSnapshots :
              setDrive(r) =>
                 /\ driveitem' = Some(r)
                 /\ pending' = FALSE
                 /\ pending_name' = None /\ pending_date' = None /\ pending_slug' = None
                 /\ uploading_pct' = -1
                 /\ ~isPending'
        /\ \A l \in HASnapshots :
              setHA(l) =>
                 /\ ha' = Some(l)
                 /\ pending' = FALSE
                 /\ pending_name' = None /\ pending_date' = None /\ pending_slug' = None
                 /\ donwloading' = -1
                 /\ donwload_failed' = FALSE
                 /\ ~isPending'
                 /\ ~IsDownloadStatus(status')
      ]_vars

C8_Witness ==
    /\ last = "setHA"
    /\ everPending /\ ~pending
    /\ downloadFailed_attr # None
    /\ donwloading = -1
    /\ restoring = None

\* C9: with restoring None and a download started (donwloading >= 0), the
\* call downloadFailed() completes and status() is then "Loading Failed!"
C9_DownloadFailureReadBack ==
    (last = "downloadFailed" /\ restoring = None /\ donwloading >= 0)
       => (raised = "none" /\ status = "Loading Failed!")

\* C10: version() is the local record's version, else the remote record's
\* version (default "?"), else "?"; snapshotType() is the local record's
\* type, else the remote record's type (default "full"), else "pending"
C10_VersionAndTypePreferLocal ==
    /\ version = (IF ha # None THEN HASnapshot_version(ha[1])
                  ELSE IF driveitem # None THEN DriveSnapshot_version(driveitem[1])
                  ELSE "?")
    /\ snapshotType.exc = "none"
    /\ snapshotType.val = (IF ha # None THEN HASnapshot_snapshotType(ha[1])
                           ELSE IF driveitem # None
                                THEN DriveSnapshot_snapshotType(driveitem[1])
                           ELSE "pending")

\* C12: name() and slug() take the remote record first, then the local one,
\* then the pending placeholder, else "error": without records, setPending
\* with a non-empty name n gives name() = n and slug() = "PENDING", a later
\* endPending(s) gives slug() = s and keeps name() = n, setDrive / setHA give
\* the attached record's values, and with both records the remote one wins
C12_NameAndSlugFollowPendingLifecycle ==
    /\ [](/\ name = (IF driveitem # None THEN DriveSnapshot_name(driveitem[1])
                     ELSE IF ha # None THEN HASnapshot_name(ha[1])
                     ELSE IF pending /\ pending_name \notin {None, Some("")}
                          THEN pending_name[1]
                     ELSE "error")
          /\ slug = (IF driveitem # None THEN DriveSnapshot_slug(driveitem[1])
                     ELSE IF ha # None THEN HASnapshot_slug(ha[1])
                     ELSE IF pending /\ pending_slug \notin {None, Some("")}
                          THEN pending_slug[1]
                     ELSE "error"))
    /\ [][ /\ \A n \in PendingNames \ {""}, d \in PendingDates,
                 rd \in BOOLEAN, rh \in BOOLEAN :
                 (setPending(n, d, rd, rh) /\ driveitem = None /\ ha = None)
                 => (name' = n /\ slug' = "PENDING")
           /\ \A s \in Slugs :
                 (endPending(s) /\ driveitem = None /\ ha = None
                    /\ pending /\ pending_name \notin {None, Some("")})
                 => (slug' = s /\ name' = pending_name[1])
           /\ \A r \in DriveSnapshots :
                 setDrive(r) => (name' = DriveSnapshot_name(r)
                                 /\ slug' = DriveSnapshot_slug(r))
           /\ \A l \in HASnapshots :
                 setHA(l) =>
                    IF driveitem = None
                    THEN name' = HASnapshot_name(l) /\ slug' = HASnapshot_slug(l)
                    ELSE /\ name' = DriveSnapshot_name(driveitem[1])
                         /\ slug' = DriveSnapshot_slug(driveitem[1])
         ]_vars

C12_Witness ==
    /\ last = "endPending"
    /\ driveitem = None /\ ha = None
    /\ name = "Pending Snapshot"
    /\ slug = "abc123"

DerivedAccessors ==
    <<name, slug, size, date, isInHA, isInDrive, isPending, isDeleted,
      haRetained, driveRetained, status>>

\* C13: update(l) with a local record is idempotent: a second update(l) with
\* the same record, applied to the result of the first, changes no derived
\* accessor
C13_UpdateLocalIdempotent ==
    [][ \A l \in HASnapshots :
           (last = "update" /\ ha = Some(l) /\ update(l))
           => DerivedAccessors' = DerivedAccessors ]_vars

C13_Witness ==
    /\ last = "update"
    /\ calls >= 2
    /\ ha # None /\ driveitem = None
    /\ uploading_pct >= 0
    /\ status = "Uploading 0%"

\* C17: endPending(slug) writes pending_slug and no other field, so an
\* aggregate that was pending before the call is pending after it
C17_EndPendingWritesSlugOnly ==
    [][ \A s \in Slugs :
           endPending(s) =>
              /\ pending_slug' = Some(s)
              /\ UNCHANGED <<driveitem, ha, drive, pending, donwloading,
                             donwload_failed, downloadFailed_attr,
                             pending_name, pending_date, uploading_pct,
                             pendingHasFailed, will_backup, restoring,
                             _deleteNextFromDrive, _deleteNextFromHa,
                             _pending_retain_drive, _pending_retain_ha>>
              /\ isPending => isPending' ]_vars

C17_Witness ==
    /\ last = "endPending"
    /\ isPending
    /\ pending_name = Some("Pending Snapshot")
    /\ pending_slug = Some("abc123")

\* C18: once pendingFailed() has been called pendingHasFailed stays true and
\* isPending() stays false through every later mutator call, setPending
\* included
C18_PendingFailureIsPermanent ==
    /\ []((last = "pendingFailed" \/ pendingHasFailed)
             => (pendingHasFailed /\ ~isPending))
    /\ [][ pendingHasFailed => (pendingHasFailed' /\ ~isPending') ]_vars

C18_Witness ==
    /\ last = "setPending"
    /\ pendingHasFailed
    /\ pending /\ ha = None
    /\ ~isPending

\* C19: without a remote and without a local record pending is true, so
\* status() is never "Invalid State"; a failed placeholder that is neither
\* restoring nor downloading reports "Pending" while isDeleted() is true
C19_NoRecordImpliesPending ==
    /\ (driveitem = None /\ ha = None) => (pending /\ status # "Invalid State")
    /\ (driveitem = None /\ ha = None /\ pendingHasFailed
          /\ restoring = None /\ donwloading < 0)
       => (status = "Pending" /\ isDeleted)

C19_Witness ==
    /\ last = "pendingFailed"
    /\ driveitem = None /\ ha = None
    /\ restoring = None /\ donwloading < 0
    /\ status = "Pending"
    /\ isDeleted

\* C20: with restoring None, after setDownloading(p) with p >= 0 status() is
\* "Refreshing snapshot" for p = 100 and "Loading p%" otherwise, never
\* "Loading Failed!", even when downloadFailed() was called before
C20_SetDownloadingClearsFailure ==
    [][ \A p \in DownloadPercents :
           (setDownloading(p) /\ p >= 0 /\ restoring = None)
           => /\ status' # "Loading Failed!"
              /\ status' = (IF p = 100 THEN "Refreshing snapshot"
                            ELSE "Loading " \o ToString(p) \o "%") ]_vars

(***************************************************************************)
(* class DriveSnapshot on shared storage: the raw record is a dict whose   *)
(* value under 'appProperties' is a second dict.  dict.copy() builds a new *)
(* outer dict with the same values, so the copy refers to the same inner   *)
(* dict; heap holds the inner dicts and the outer dicts hold addresses.    *)
(***************************************************************************)
\* spellings of the stored 'retained' property; None is an absent key
RetainedSpellings == {None, Some("true"), Some("True"), Some("TRUE"),
                      Some("false"), Some("False")}

\* appProperties of the i-th remote record with the retained key as given
PropsWithRetained(i, spelling) ==
    LET p == DriveSource(i).appProperties
        rest == [k \in DOMAIN p \ {PROP_RETAINED} |-> p[k]]
    IN  IF spelling = None THEN rest ELSE (PROP_RETAINED :> spelling[1]) @@ rest

\* str(bool) with upper-case results
PyStr_upper(b) == IF b THEN "TRUE" ELSE "FALSE"

\* str(bool)
PyStr(b) == IF b THEN "True" ELSE "False"

\* the object with its appProperties address replaced by the dict it refers to
Deref(d) == [d EXCEPT !.source.appProperties = heap[@]]

\* DriveSnapshot.__init__ on a record whose appProperties is an address:
\* source.copy() copies the address
DriveSnapshot_shallow(source) ==
    [kind |-> "DriveSnapshot",
     source |-> source,
     _date |-> parseDateTime(heap[source.appProperties][PROP_KEY_DATE])]

AuxCalled(method) ==
    /\ calls < MaxCalls
    /\ calls' = calls + 1
    /\ last' = method
    /\ raised' = "none"
    /\ UNCHANGED <<fields, everPending>>

DriveSnapshot__init__ ==
    /\ instances' = Append(instances, DriveSnapshot_shallow(caller_source[1]))
    /\ args' = <<>>
    /\ UNCHANGED <<heap, caller_source, returned>>
    /\ AuxCalled("DriveSnapshot")

setRetain(k, retain) ==
    /\ k \in 1..Len(instances)
    /\ heap' = [heap EXCEPT ![instances[k].source.appProperties] =
                                (PROP_RETAINED :> PyStr(retain)) @@ @]
    /\ args' = <<k, retain>>
    /\ UNCHANGED <<caller_source, instances, returned>>
    /\ AuxCalled("setRetain")

\* retained() of the k-th instance
retained(k) == DriveSnapshot_retained(Deref(instances[k]))

\* the call instances[k].retained()
retained_call(k) ==
    /\ k \in 1..Len(instances)
    /\ returned' = Some(retained(k))
    /\ args' = <<k>>
    /\ UNCHANGED <<heap, caller_source, instances>>
    /\ AuxCalled("retained")

Init_Retain ==
    /\ Snapshot__init__(None)
    /\ everPending = pending
    /\ last = "__init__"
    /\ raised = "none"
    /\ calls = 0
    /\ \E i \in 1..NumDrive, spelling \in RetainedSpellings :
          /\ heap = <<PropsWithRetained(i, spelling)>>
          /\ caller_source = Some([DriveSource(i) EXCEPT !.appProperties = 1])
    /\ instances = <<>>
    /\ args = <<>>
    /\ returned = None

Next_Retain ==
    \/ DriveSnapshot__init__
    \/ \E k \in 1..MaxCalls, retain \in BOOLEAN : setRetain(k, retain)
    \/ \E k \in 1..MaxCalls : retained_call(k)

SpecRetain == Init_Retain /\ [][Next_Retain]_vars

\* the 'retained' property the caller's original record holds, None if absent
CallerRetained ==
    LET props == heap[caller_source[1].appProperties]
    IN  IF PROP_RETAINED \in DOMAIN props THEN Some(props[PROP_RETAINED]) ELSE None

\* the 'retained' property the k-th instance holds, None if absent
StoredRetained(k) ==
    LET props == heap[instances[k].source.appProperties]
    IN  IF PROP_RETAINED \in DOMAIN props THEN Some(props[PROP_RETAINED]) ELSE None

\* C11: setRetain(b) on one instance changes neither the caller's original
\* record (its nested appProperties included) nor the retained value of any
\* other DriveSnapshot built from the same original record
C11_SetRetainConfinedToInstance ==
    [][ \A k \in 1..MaxCalls, b \in BOOLEAN :
           setRetain(k, b) =>
              /\ CallerRetained' = CallerRetained
              /\ \A j \in 1..Len(instances) :
                    j # k => retained(j)' = retained(j) ]_vars

\* C16: retained() is true exactly when the stored property is "true" or
\* "True"; after setRetain(b) retained() returns b; a second setRetain(b)
\* changes nothing
C16_RetainedEncodingRoundTrip ==
    /\ [](\A k \in 1..Len(instances) :
             retained(k) <=> StoredRetained(k) \in {Some("true"), Some("True")})
    /\ [](last = "setRetain" => retained(args[1]) = args[2])
    /\ [][ \A k \in 1..MaxCalls :
              (last = "setRetain" /\ args[1] = k /\ retained_call(k))
              => returned' = Some(args[2]) ]_vars
    /\ [][ \A k \in 1..MaxCalls, b \in BOOLEAN :
              (last = "setRetain" /\ args = <<k, b>> /\ setRetain(k, b))
              => (heap' = heap /\ instances' = instances) ]_vars

C16_Witness ==
    /\ last = "setRetain"
    /\ args = <<1, TRUE>>
    /\ StoredRetained(1) = Some("True")
    /\ retained(1)
    /\ calls = 3

(***************************************************************************)
(* Snapshot.sizeString.  float(size) is exact for the sizes used here and  *)
(* the divisors are powers of two, so int(size_bytes / divisor) is the     *)
(* quotient with its fraction discarded.                                   *)
(***************************************************************************)
\* distance from each unit boundary up to which sizes are tried
MaxSizeOffset == 8

UnitBoundaries == {0, 1024, 1024 * 1024, 1024 * 1024 * 1024}

\* sizes in bytes a remote record reports
SizeInputs ==
    { b + k : b \in UnitBoundaries, k \in (0 - MaxSizeOffset)..MaxSizeOffset } \cap Nat

\* sizes in mebibytes a local record reports
LocalSizeInputs == {0, 1, 2, 1023, 1024, 1025}

\* sizeString() with each boundary value belonging to the upper unit
sizeString_boundaryUp ==
    LET size_bytes == size
    IN  IF size_bytes < 1024 THEN ToString(size_bytes) \o " B"
        ELSE IF size_bytes < 1024 * 1024
        THEN ToString(size_bytes \div 1024) \o " kB"
        ELSE IF size_bytes < 1024 * 1024 * 1024
        THEN ToString(size_bytes \div (1024 * 1024)) \o " MB"
        ELSE ToString(size_bytes \div (1024 * 1024 * 1024)) \o " GB"

\* sizeString() rounding to the nearest unit instead of truncating
sizeString_rounding ==
    LET size_bytes == size
    IN  IF size_bytes <= 1024 THEN ToString(size_bytes) \o " B"
        ELSE IF size_bytes <= 1024 * 1024
        THEN ToString((size_bytes + 512) \div 1024) \o " kB"
        ELSE IF size_bytes <= 1024 * 1024 * 1024
        THEN ToString((size_bytes + 512 * 1024) \div (1024 * 1024)) \o " MB"
        ELSE ToString((size_bytes \div 2 + 256 * 1024 * 1024)
                         \div (512 * 1024 * 1024)) \o " GB"

sizeString ==
    LET size_bytes == size
    IN  IF size_bytes <= 1024 THEN ToString(size_bytes) \o " B"
        ELSE IF size_bytes <= 1024 * 1024
        THEN ToString(size_bytes \div 1024) \o " kB"
        ELSE IF size_bytes <= 1024 * 1024 * 1024
        THEN ToString(size_bytes \div (1024 * 1024)) \o " MB"
        ELSE ToString(size_bytes \div (1024 * 1024 * 1024)) \o " GB"

\* the call snapshot.sizeString()
sizeString_call ==
    /\ returned' = Some(sizeString)
    /\ args' = <<>>
    /\ UNCHANGED <<heap, caller_source, instances>>
    /\ AuxCalled("sizeString")

\* the call snapshot.size()
size_call ==
    /\ returned' = Some(size)
    /\ args' = <<>>
    /\ UNCHANGED <<heap, caller_source, instances>>
    /\ AuxCalled("size")

Init_Size ==
    /\ \/ \E n \in SizeInputs :
             Snapshot__init__(Some(DriveSnapshot([DriveSource(1) EXCEPT !.size = n])))
       \/ \E m \in LocalSizeInputs :
             Snapshot__init__(Some(HASnapshot([HASource(1) EXCEPT !.size = m], FALSE)))
       \/ Snapshot__init__(None)
    /\ everPending = pending
    /\ last = "__init__"
    /\ raised = "none"
    /\ calls = 0
    /\ AuxIdle

Next_Size ==
    \/ sizeString_call
    \/ size_call

SpecSize == Init_Size /\ [][Next_Size]_vars

\* C14 (as stated): sizeString() of 1023 is "1023 B", of 1024 "1 kB", of
\* 1024*1024 "1 MB" and of 1024*1024*1024 - 1 "1023 MB"
C14_BoundaryTable ==
    last = "sizeString" =>
       /\ size = 1023 => returned = Some("1023 B")
       /\ size = 1024 => returned = Some("1 kB")
       /\ size = 1024 * 1024 => returned = Some("1 MB")
       /\ size = 1024 * 1024 * 1024 - 1 => returned = Some("1023 MB")

\* C14 (amended): sizeString() of 1023 is "1023 B", of 1024 "1024 B", of
\* 1024*1024 "1024 kB" and of 1024*1024*1024 - 1 "1023 MB"
C14_BoundaryTableLowerUnit ==
    last = "sizeString" =>
       /\ size = 1023 => returned = Some("1023 B")
       /\ size = 1024 => returned = Some("1024 B")
       /\ size = 1024 * 1024 => returned = Some("1024 kB")
       /\ size = 1024 * 1024 * 1024 - 1 => returned = Some("1023 MB")

C14_Witness ==
    /\ last = "sizeString"
    /\ size = 1024 * 1024
    /\ returned = Some("1024 kB")

\* the unit of a size: the first power of 1024 whose successor bounds it
UnitNames == <<"B", "kB", "MB", "GB">>

Pow1024(e) == IF e = 0 THEN 1 ELSE IF e = 1 THEN 1024
              ELSE IF e = 2 THEN 1024 * 1024 ELSE 1024 * 1024 * 1024

UnitOf(n) == IF \E e \in 0..2 : n <= Pow1024(e + 1)
             THEN CHOOSE e \in 0..2 : n <= Pow1024(e + 1)
                                      /\ \A f \in 0..(e - 1) : n > Pow1024(f + 1)
             ELSE 3

\* C15: for every non-negative size sizeString() is the size divided by its
\* unit with the fraction discarded, a boundary value belonging to the lower
\* unit: up to 1024 "B", up to 1024^2 "kB", up to 1024^3 "MB", above "GB"
C15_TruncatingLowerUnit ==
    last = "sizeString" =>
       returned = Some(ToString(size \div Pow1024(UnitOf(size)))
                       \o " " \o UnitNames[UnitOf(size) + 1])

C15_Witness ==
    /\ last = "sizeString"
    /\ size = 1024 * 1024 * 1024 + 1
    /\ returned = Some("1 GB")
====
